---- MODULE Spec2Model ----
(***************************************************************************)
(* The dynamic (auto-routed) wire of lcapy-gui:                            *)
(*   WireSolver   - the hooks of the A* search (heuristic, edge cost,      *)
(*                  neighbours) over an occupancy grid,                    *)
(*   DynamicWire  - the wire entity: its cached path, its private grid,    *)
(*                  update_graph / update_path / simplify_path / draw /    *)
(*                  convert_to_wires / point_pairs / is_within_bbox.       *)
(* Coordinates are 0-based grid cells <<x, y>>, as in the source.          *)
(***************************************************************************)
EXTENDS Integers, Sequences, FiniteSets, TLC

\* ------------------------------------------------------------------ bounds
\* model.preferences.xsize: the columns of the canvas (36 in the editor)
Width == 4
\* the most cells static components cover at once
MaxOccupied == 2
\* the most operations in one behaviour of the editor
MaxOps == 3
\* the dynamic wires that can be in the circuit
NumWires == 2

\* ------------------------------------------------------ program constants
\* heuristic_cost_estimate's weight of two cells that share no grid line
Huge == 100000

\* model.preferences.ysize: the rows of the canvas (22 in the editor), kept
\* at half the columns
Height == Width \div 2

Wires == 1..NumWires

Cells(w, h) == (0..(w - 1)) \X (0..(h - 1))

\* came_from of a node that has no predecessor (None)
None == <<-1, -1>>

\* astar()'s result when the open set empties (None)
NoPathFound == <<>>

\* The entries of a sequence.
Range(s) == {s[i] : i \in DOMAIN s}

\* ---------------------------------------------------------------- WireSolver

\* WireSolver.__init__ on a blank graph of w columns and h rows.
BlankSolver(w, h) ==
    [lines |-> [c \in Cells(w, h) |-> 0], width |-> w, height |-> h]

\* A solver whose graph has exactly the cells of occ marked.
SolverOf(w, h, occ) ==
    [lines |-> [c \in Cells(w, h) |-> IF c \in occ THEN 1 ELSE 0],
     width |-> w, height |-> h]

heuristic_cost_estimate(node_A, node_B) ==
    IF node_A[1] = node_B[1] \/ node_A[2] = node_B[2] THEN 1 ELSE Huge

distance_between(node_1, node_2) == 1

\* Around with a diagonal cell in place of the right-hand one.
Around_skewed(node) ==
    << <<node[1], node[2] - 1>>, <<node[1], node[2] + 1>>,
       <<node[1] - 1, node[2]>>, <<node[1] + 1, node[2] + 1>> >>

\* The candidate list of neighbors(), before the filter.
Around(node) ==
    << <<node[1], node[2] - 1>>, <<node[1], node[2] + 1>>,
       <<node[1] - 1, node[2]>>, <<node[1] + 1, node[2]>> >>

\* neighbors without the test of the graph's occupancy.
neighbors_any(pf, node) ==
    LET ok(n) == /\ 0 <= n[1] /\ n[1] < pf.width
                 /\ 0 <= n[2] /\ n[2] < pf.height
    IN  SelectSeq(<< <<node[1], node[2] - 1>>, <<node[1], node[2] + 1>>,
                     <<node[1] - 1, node[2]>>, <<node[1] + 1, node[2]>> >>, ok)

neighbors(pf, node) ==
    LET ok(n) == /\ 0 <= n[1] /\ n[1] < pf.width
                 /\ 0 <= n[2] /\ n[2] < pf.height
                 /\ pf.lines[n] = 0
    IN  SelectSeq(Around(node), ok)

\* ------------------------------------------------- the A* loop (AStar.astar)
\* A search state: nodes is the SearchNodeDict restricted to the nodes that
\* have a finite gscore, open is the open set.

StartState(start, goal) ==
    [nodes |-> (start :> [gscore |-> 0,
                          fscore |-> heuristic_cost_estimate(start, goal),
                          closed |-> FALSE,
                          came_from |-> None]),
     open |-> {start}]

\* The nodes heappop may return: those of least fscore.
Lowest(S) ==
    {n \in S.open : \A m \in S.open : S.nodes[n].fscore <= S.nodes[m].fscore}

\* One pass of the while loop that pops cur (not the goal).
Expand(pf, S, cur, goal) ==
    LET g == S.nodes[cur].gscore
        better(n) ==
            /\ ~(n \in DOMAIN S.nodes /\ S.nodes[n].closed)
            /\ ~(n \in DOMAIN S.nodes
                 /\ g + distance_between(cur, n) >= S.nodes[n].gscore)
        upd == {n \in Range(neighbors(pf, cur)) : n # cur /\ better(n)}
    IN  [nodes |->
            [n \in DOMAIN S.nodes \cup upd |->
                IF n \in upd
                THEN [gscore |-> g + distance_between(cur, n),
                      fscore |-> g + distance_between(cur, n)
                                   + heuristic_cost_estimate(n, goal),
                      closed |-> FALSE,
                      came_from |-> cur]
                ELSE IF n = cur
                THEN [S.nodes[n] EXCEPT !.closed = TRUE]
                ELSE S.nodes[n]],
         open |-> (S.open \ {cur}) \cup upd]

RECURSIVE reconstruct_path(_, _)
reconstruct_path(nodes, last) ==
    IF last = None THEN <<>>
    ELSE Append(reconstruct_path(nodes, nodes[last].came_from), last)

\* Every result the loop can end with from the search states F, over every
\* order in which nodes of equal fscore may be popped; R collects them.
RECURSIVE astar_run(_, _, _, _)
astar_run(pf, goal, F, R) ==
    IF F = {} THEN R
    ELSE LET failed == {NoPathFound : S \in {T \in F : T.open = {}}}
             found == {reconstruct_path(S.nodes, goal) :
                          S \in {T \in F : goal \in Lowest(T)}}
             next == UNION {{Expand(pf, S, cur, goal) :
                               cur \in Lowest(S) \ {goal}} : S \in F}
         IN  astar_run(pf, goal, next, R \cup failed \cup found)

\* astar(start, goal): the set of its possible results.
astar(pf, start, goal) ==
    IF start = goal THEN {<<start>>}
    ELSE astar_run(pf, goal, {StartState(start, goal)}, {})

\* --------------------------------------------------------------- DynamicWire

\* kept with 'or' between the test of the columns and the test of the rows.
kept_or(path) ==
    {i \in 2..(Len(path) - 1) :
        \/ (path[i - 1][1] # path[i][1] \/ path[i][1] # path[i + 1][1])
        \/ (path[i - 1][2] # path[i][2] \/ path[i][2] # path[i + 1][2])}

\* The indices simplify_path's loop keeps: the interior cells that are not
\* aligned with both their neighbours.
kept(path) ==
    {i \in 2..(Len(path) - 1) :
        /\ (path[i - 1][1] # path[i][1] \/ path[i][1] # path[i + 1][1])
        /\ (path[i - 1][2] # path[i][2] \/ path[i][2] # path[i + 1][2])}

\* The entries of path at the indices of I, in order.
RECURSIVE pick(_, _, _)
pick(path, I, i) ==
    IF i > Len(path) THEN <<>>
    ELSE (IF i \in I THEN <<path[i]>> ELSE <<>>) \o pick(path, I, i + 1)

\* simplify_path that keeps the two ends and drops the cells between them.
simplify_path_ends(path) == <<path[1], path[Len(path)]>>

\* simplify_path() of a non-empty path.
simplify_path(path) ==
    <<path[1]>> \o pick(path, kept(path), 1) \o <<path[Len(path)]>>

\* update_path without the fallback: the path stays empty when no path is
\* found.
update_path_no_fallback(simplified, r, start, end) ==
    IF r = NoPathFound THEN <<>>
    ELSE IF simplified THEN simplify_path(r)
    ELSE r

\* update_path(): the path it stores, given astar()'s result r.
update_path(simplified, r, start, end) ==
    IF r = NoPathFound THEN <<start, end>>
    ELSE IF simplified THEN simplify_path(r)
    ELSE r

\* point_pairs raises IndexError on an empty path (self.__path[0]).
point_pairs_raises(path) == Len(path) = 0

\* point_pairs of a non-empty path.
point_pairs(path) == [i \in 1..(Len(path) - 1) |-> <<path[i], path[i + 1]>>]

\* The r of is_within_bbox for the segment seg = <<start, end>> and the mouse
\* at (x, y), as the fraction sqrt(num/den): num is the square of
\* cross(end - start, start - mouse), den the square of norm(end - start).
\* den = 0 is the 0/0 of a segment of no length, which numpy evaluates to nan.
segment_r(seg, x, y) ==
    LET dx == seg[2][1] - seg[1][1]
        dy == seg[2][2] - seg[1][2]
        cross == dx * (seg[1][2] - y) - dy * (seg[1][1] - x)
    IN  [num |-> cross * cross, den |-> dx * dx + dy * dy]

\* r < 0.5, that is 4 * num < den; a comparison with nan is False.
close_enough(r) == r.den # 0 /\ 4 * r.num < r.den

\* is_within_bbox(x, y) of a wire with a non-empty path.
is_within_bbox(path, x, y) ==
    \E i \in DOMAIN point_pairs(path) :
        close_enough(segment_r(point_pairs(path)[i], x, y))

\* -------------------------------------------------------------------- state

VARIABLES
    prefs,      \* model.preferences: [xsize, ysize]
    occupied,   \* the cells inside the bounding box of some static component
    wire,       \* the dynamic wires: state, node1, node2, path, pf, simplified
                \* (the nodes sit on grid points, where int() changes nothing)
    last,       \* the last operation, its inputs and its outcome
    ops         \* the operations made so far

vars == <<prefs, occupied, wire, last, ops>>

Canvas == Cells(prefs.xsize, prefs.ysize)

\* A wire that is not constructed yet.
NoWire ==
    [state |-> "none", node1 |-> <<0, 0>>, node2 |-> <<0, 0>>, path |-> <<>>,
     pf |-> BlankSolver(0, 0), simplified |-> TRUE]

\* DynamicWire.__init__: an empty path and a blank default graph (36 x 22 in
\* the source; the canvas here, which bounds it).
NewWire(n1, n2, simplify) ==
    [state |-> "live", node1 |-> n1, node2 |-> n2, path |-> <<>>,
     pf |-> BlankSolver(prefs.xsize, prefs.ysize), simplified |-> simplify]

Outcome(op, w) ==
    [op |-> op, w |-> w, start |-> wire[w].node1, goal |-> wire[w].node2,
     stale |-> wire[w].path = <<>>, raw |-> NoPathFound, err |-> "",
     out |-> <<>>, q |-> <<0, 0>>, hit |-> FALSE]

Live(w) == wire[w].state = "live"

\* The other wires of model.circuit.elements.
Others(w) == {v \in Wires \ {w} : Live(v)}

\* update_graph raises when another wire's is_within_bbox does.
update_graph_raises(w) == \E v \in Others(w) : point_pairs_raises(wire[v].path)

\* The solver after update_graph(model) ran to its end.
update_graph(w) ==
    [lines |->
        [c \in Canvas |->
            IF \/ c \in occupied
               \/ \E v \in Others(w) :
                     is_within_bbox(wire[v].path, c[1], c[2])
            THEN 1 ELSE 0],
     width |-> prefs.xsize, height |-> prefs.ysize]

\* The solvers update_graph can leave behind when it raises: the exception
\* comes at cell (0, 0), which an element iterated earlier may have marked.
update_graph_aborted(w) ==
    {SolverOf(prefs.xsize, prefs.ysize, m) :
        m \in {{}, {<<0, 0>>} \cap occupied}}

\* ------------------------------------------------------------------ actions

\* update_path() on the graph the wire holds.
UpdatePath(w) ==
    /\ Live(w)
    /\ \E r \in astar(wire[w].pf, wire[w].node1, wire[w].node2) :
          /\ wire' = [wire EXCEPT ![w].path =
                        update_path(wire[w].simplified, r,
                                    wire[w].node1, wire[w].node2)]
          /\ last' = [Outcome("update_path", w) EXCEPT !.raw = r]
    /\ UNCHANGED <<prefs, occupied>>

\* draw(model): update_graph, update_path, then the strokes of point_pairs.
Draw(w) ==
    /\ Live(w)
    /\ IF update_graph_raises(w)
       THEN \E pf \in update_graph_aborted(w) :
               /\ wire' = [wire EXCEPT ![w].pf = pf]
               /\ last' = [Outcome("draw", w) EXCEPT !.err = "IndexError"]
       ELSE \E r \in astar(update_graph(w), wire[w].node1, wire[w].node2) :
               LET path == update_path(wire[w].simplified, r,
                                       wire[w].node1, wire[w].node2)
               IN  /\ wire' = [wire EXCEPT ![w].pf = update_graph(w),
                                           ![w].path = path]
                   /\ last' = [Outcome("draw", w) EXCEPT
                                  !.raw = r, !.out = point_pairs(path)]
    /\ UNCHANGED <<prefs, occupied>>

\* convert_to_wires(model): update_path, one cpt_create per pair of
\* consecutive path nodes, then model.delete(self).
ConvertToWires(w) ==
    /\ Live(w)
    /\ \E r \in astar(wire[w].pf, wire[w].node1, wire[w].node2) :
          LET path == update_path(wire[w].simplified, r,
                                  wire[w].node1, wire[w].node2)
          IN  /\ wire' = [wire EXCEPT ![w].path = path,
                                      ![w].state = "deleted"]
              /\ last' = [Outcome("convert", w) EXCEPT
                             !.raw = r, !.out = point_pairs(path)]
    /\ UNCHANGED <<prefs, occupied>>

\* The point_pairs property, read from outside.
Segments(w) ==
    /\ Live(w)
    /\ last' = IF point_pairs_raises(wire[w].path)
               THEN [Outcome("segments", w) EXCEPT !.err = "IndexError"]
               ELSE [Outcome("segments", w) EXCEPT
                        !.out = point_pairs(wire[w].path)]
    /\ UNCHANGED <<prefs, occupied, wire>>

\* The points a hit-test is asked about: the grid points of the canvas.
Queries == Canvas

\* is_within_bbox(x, y), called from outside.
HitTest(w, q) ==
    /\ Live(w)
    /\ last' = IF point_pairs_raises(wire[w].path)
               THEN [Outcome("hit", w) EXCEPT !.q = q, !.err = "IndexError"]
               ELSE [Outcome("hit", w) EXCEPT
                        !.q = q,
                        !.hit = is_within_bbox(wire[w].path, q[1], q[2])]
    /\ UNCHANGED <<prefs, occupied, wire>>

\* The editor constructs the next dynamic wire between two nodes, with the
\* default simplify_path=True.
CreateWire(w, n1, n2) ==
    /\ wire[w].state = "none"
    /\ \A v \in 1..(w - 1) : wire[v].state # "none"
    /\ wire' = [wire EXCEPT ![w] = NewWire(n1, n2, TRUE)]
    /\ last' = [Outcome("create", w) EXCEPT !.start = n1, !.goal = n2]
    /\ UNCHANGED <<prefs, occupied>>

\* A node of the wire is dragged to a cell next to it.
MoveEndpoint(w, second, c) ==
    /\ Live(w)
    /\ c \in Range(Around(IF second THEN wire[w].node2 ELSE wire[w].node1))
    /\ wire' = IF second THEN [wire EXCEPT ![w].node2 = c]
               ELSE [wire EXCEPT ![w].node1 = c]
    /\ last' = [op |-> "move", w |-> w, start |-> wire'[w].node1,
                goal |-> wire'[w].node2, stale |-> wire[w].path = <<>>,
                raw |-> NoPathFound, err |-> "", out |-> <<>>,
                q |-> <<0, 0>>, hit |-> FALSE]
    /\ UNCHANGED <<prefs, occupied>>

Layout(op) ==
    [op |-> op, w |-> 0, start |-> <<0, 0>>, goal |-> <<0, 0>>,
     stale |-> FALSE, raw |-> NoPathFound, err |-> "", out |-> <<>>,
     q |-> <<0, 0>>, hit |-> FALSE]

\* A static component is placed over cell c.
AddComponent(c) ==
    /\ c \notin occupied
    /\ Cardinality(occupied) < MaxOccupied
    /\ occupied' = occupied \cup {c}
    /\ last' = Layout("add")
    /\ UNCHANGED <<prefs, wire>>

\* The static component over cell c is deleted.
RemoveComponent(c) ==
    /\ c \in occupied
    /\ occupied' = occupied \ {c}
    /\ last' = Layout("remove")
    /\ UNCHANGED <<prefs, wire>>

\* The static component over cell c is moved over cell d.
MoveComponent(c, d) ==
    /\ c \in occupied
    /\ d \notin occupied
    /\ occupied' = (occupied \ {c}) \cup {d}
    /\ last' = Layout("movecpt")
    /\ UNCHANGED <<prefs, wire>>

\* ----------------------------------------------------------- specifications

\* The editor, from an empty circuit.
Init ==
    /\ prefs = [xsize |-> Width, ysize |-> Height]
    /\ occupied = {}
    /\ wire = [w \in Wires |-> NoWire]
    /\ last = Layout("init")
    /\ ops = 0

\* An operation of the editor: one more of the MaxOps of a behaviour.
Op(A) == ops < MaxOps /\ A /\ ops' = ops + 1

Next ==
    \/ \E w \in Wires, n1 \in Canvas, n2 \in Canvas :
          Op(CreateWire(w, n1, n2))
    \/ \E w \in Wires, b \in BOOLEAN, c \in Canvas : Op(MoveEndpoint(w, b, c))
    \/ \E c \in Canvas : Op(AddComponent(c))
    \/ \E c \in Canvas : Op(RemoveComponent(c))
    \/ \E c \in Canvas, d \in Canvas : Op(MoveComponent(c, d))
    \/ \E w \in Wires : Op(Draw(w))
    \/ \E w \in Wires : Op(ConvertToWires(w))
    \/ \E w \in Wires : Op(Segments(w))
    \/ \E w \in Wires, q \in Queries : Op(HitTest(w, q))

Spec == Init /\ [][Next]_vars

\* The graphs of at most MaxOccupied marked cells.
Graphs ==
    {SolverOf(Width, Height, occ) :
        occ \in {o \in SUBSET Cells(Width, Height) :
                    Cardinality(o) <= MaxOccupied}}

\* One wire whose graph was built from any layout, between any two nodes.
InitSearch ==
    /\ prefs = [xsize |-> Width, ysize |-> Height]
    /\ occupied = {}
    /\ \E pf \in Graphs, n1 \in Cells(Width, Height),
          n2 \in Cells(Width, Height), b \in BOOLEAN :
          wire = [w \in Wires |->
                    IF w = 1
                    THEN [state |-> "live", node1 |-> n1, node2 |-> n2,
                          path |-> <<>>, pf |-> pf, simplified |-> b]
                    ELSE NoWire]
    /\ last = Layout("init")
    /\ ops = 0

NextSearch ==
    \/ \E w \in Wires : UpdatePath(w) /\ UNCHANGED ops
    \/ \E w \in Wires : ConvertToWires(w) /\ UNCHANGED ops
    \/ \E w \in Wires : Segments(w) /\ UNCHANGED ops

SpecSearch == InitSearch /\ [][NextSearch]_vars

\* The graph update_graph builds on a canvas of 5 columns and 5 rows when
\* components cover row y = 2 but for its cell in column gap.
WallGraph(gap) ==
    SolverOf(5, 5, {<<x, 2>> : x \in 0..4} \ {<<gap, 2>>})

\* One wire from a node on the top row to a node on the bottom row, its
\* graph built from a wall with one gap.
InitWall ==
    /\ prefs = [xsize |-> 5, ysize |-> 5]
    /\ occupied = {}
    /\ \E gap \in 0..4, sx \in 0..4, gx \in 0..4, b \in BOOLEAN :
          wire = [w \in Wires |->
                    IF w = 1
                    THEN [state |-> "live", node1 |-> <<sx, 0>>,
                          node2 |-> <<gx, 4>>, path |-> <<>>,
                          pf |-> WallGraph(gap), simplified |-> b]
                    ELSE NoWire]
    /\ last = Layout("init")
    /\ ops = 0

SpecWall == InitWall /\ [][NextSearch]_vars

\* ------------------------------------------------------------------- claims

\* The graph, the cached path and the endpoints of the last operation's wire.
LastPf == wire[last.w].pf
LastPath == wire[last.w].path
Searched == last.op \in {"update_path", "draw", "convert"} /\ last.err = ""
Found == Searched /\ last.raw # NoPathFound

Manhattan(a, b) ==
    (IF a[1] > b[1] THEN a[1] - b[1] ELSE b[1] - a[1])
    + (IF a[2] > b[2] THEN a[2] - b[2] ELSE b[2] - a[2])

Free(pf, n) == n \in Cells(pf.width, pf.height) /\ pf.lines[n] = 0

\* The cells a chain of free 4-neighbours links to the cells of S.
RECURSIVE Flood(_, _)
Flood(pf, S) ==
    LET T == S \cup {n \in Cells(pf.width, pf.height) :
                        Free(pf, n) /\ \E m \in S : Manhattan(m, n) = 1}
    IN  IF T = S THEN S ELSE Flood(pf, T)

\* Some 4-neighbour of goal is start or linked to start by free cells.
GoalApproachable(pf, start, goal) ==
    \E n \in Flood(pf, {start}) : Manhattan(n, goal) = 1

\* The cells of path where its direction changes.
TurnIndices(path) ==
    {i \in 2..(Len(path) - 1) :
        /\ ~(path[i - 1][1] = path[i][1] /\ path[i][1] = path[i + 1][1])
        /\ ~(path[i - 1][2] = path[i][2] /\ path[i][2] = path[i + 1][2])}

Turns(path) == Cardinality(TurnIndices(path))

\* The cells a straight run over free cells reaches from c.
StraightRun(pf, c) ==
    {n \in Cells(pf.width, pf.height) :
        /\ n # c
        /\ n[1] = c[1] \/ n[2] = c[2]
        /\ \A m \in Cells(pf.width, pf.height) :
              (/\ m # c
               /\ Manhattan(c, m) + Manhattan(m, n) = Manhattan(c, n))
              => Free(pf, m)}

\* The least t with goal among the cells reached with at most t turns, S
\* being those reached with at most t; -1 when no path reaches goal.
RECURSIVE TurnsTo(_, _, _, _)
TurnsTo(pf, S, goal, t) ==
    IF goal \in S THEN t
    ELSE LET T == S \cup UNION {StraightRun(pf, c) : c \in S}
         IN  IF T = S THEN -1 ELSE TurnsTo(pf, T, goal, t + 1)

\* The fewest turns of a path from start to goal over free cells.
MinTurns(pf, start, goal) ==
    TurnsTo(pf, {start} \cup StraightRun(pf, start), goal, 0)

\* C1: every cell of a path astar returns is inside the graph, and every
\* cell of it other than start and goal is unmarked in the graph searched.
C1_PathInBoundsAndFree ==
    Found =>
        \A i \in DOMAIN last.raw :
            /\ last.raw[i] \in Cells(LastPf.width, LastPf.height)
            /\ last.raw[i] \notin {last.start, last.goal}
                  => LastPf.lines[last.raw[i]] = 0

\* C1 witness: a path that turns, found on a graph with marked cells, one of
\* them next to the path.
C1_Witness ==
    /\ Found
    /\ Turns(last.raw) >= 1
    /\ \E c \in DOMAIN LastPf.lines :
          /\ LastPf.lines[c] = 1
          /\ \E i \in DOMAIN last.raw : Manhattan(c, last.raw[i]) = 1

\* The search has one result, whichever of the equal-ranked nodes is popped
\* first.
OrderFree(pf, start, goal) == Cardinality(astar(pf, start, goal)) = 1

\* C2: the path astar returns has the fewest turns of all the paths from
\* start to goal over free cells, whichever of the equal-ranked nodes is
\* popped first.  Stated for the searches whose result no pop order changes,
\* so that no order of the heap is assumed.
C2_LeastTurns ==
    (Found /\ OrderFree(LastPf, last.start, last.goal))
    => Turns(last.raw) = MinTurns(LastPf, last.start, last.goal)

\* C3: when no chain of free 4-neighbours links start to goal, astar finds
\* no path, update_path stores <<start, goal>> as it is and raises nothing,
\* and point_pairs and convert_to_wires then work on that path.
C3_NoPathFallback ==
    (/\ last.w \in Wires
     /\ last.goal \notin Flood(LastPf, {last.start}))
    => /\ Searched => /\ last.raw = NoPathFound
                      /\ LastPath = <<last.start, last.goal>>
       /\ last.op = "convert" => last.out = << <<last.start, last.goal>> >>
       /\ (last.op = "segments" /\ ~last.stale)
             => /\ last.err = ""
                /\ last.out = << <<last.start, last.goal>> >>

\* C3 witness: segments read from a wire that fell back to <<start, goal>>
\* because marked cells enclose its goal.
C3_Witness ==
    /\ last.op = "segments"
    /\ ~last.stale
    /\ last.start # last.goal
    /\ ~GoalApproachable(LastPf, last.start, last.goal)
    /\ LastPf.lines[last.goal] = 0
    /\ last.out = << <<last.start, last.goal>> >>

\* C4: start and goal are always traversable: with start # goal and a
\* 4-neighbour of goal reachable from start, astar returns a path even when
\* start or goal is marked in the graph.
C4_EndpointsTraversable ==
    (/\ Searched
     /\ last.start # last.goal
     /\ GoalApproachable(LastPf, last.start, last.goal))
    => last.raw # NoPathFound

\* C5: a path astar returns begins with start, ends with goal, and its
\* consecutive cells are 4-neighbours.
C5_PathAdjacent ==
    Found =>
        /\ last.raw[1] = last.start
        /\ last.raw[Len(last.raw)] = last.goal
        /\ \A i \in 1..(Len(last.raw) - 1) :
              Manhattan(last.raw[i], last.raw[i + 1]) = 1

\* C5 witness: a path of five cells or more that turns.
C5_Witness ==
    /\ Found
    /\ Len(last.raw) >= 5
    /\ Turns(last.raw) >= 1

\* The cells of the straight walk from a to b, both included.
RECURSIVE StraightWalk(_, _)
StraightWalk(a, b) ==
    IF a = b \/ (a[1] # b[1] /\ a[2] # b[2]) THEN <<b>>
    ELSE LET step == IF a[1] < b[1] THEN <<a[1] + 1, a[2]>>
                     ELSE IF a[1] > b[1] THEN <<a[1] - 1, a[2]>>
                     ELSE IF a[2] < b[2] THEN <<a[1], a[2] + 1>>
                     ELSE <<a[1], a[2] - 1>>
         IN  <<step>> \o (IF step = b THEN <<>> ELSE StraightWalk(step, b))

\* The cell-by-cell walk along the segments between the waypoints wp.
RECURSIVE Walk(_)
Walk(wp) ==
    IF Len(wp) <= 1 THEN wp
    ELSE LET head == Walk(SubSeq(wp, 1, Len(wp) - 1))
             a == wp[Len(wp) - 1]
             b == wp[Len(wp)]
         IN  IF a = b THEN head ELSE head \o StraightWalk(a, b)

\* The subsequence of path that keeps its first cell, its last cell and its
\* turn cells.
TurnSubsequence(path) ==
    LET keep == {1, Len(path)} \cup TurnIndices(path)
        n == Cardinality(keep)
        at(k) == CHOOSE i \in keep : Cardinality({j \in keep : j < i}) = k - 1
    IN  [k \in 1..n |-> path[at(k)]]

\* What a refresh of wire w against the layout and the endpoints as they are
\* now would hand to cpt_create.
FreshRequests(w, start, goal) ==
    {point_pairs(update_path(wire[w].simplified, r, start, goal)) :
        r \in astar(update_graph(w), start, goal)}

\* The cells under the wires the requests reqs create.
RequestCells(reqs) ==
    UNION {Range(Walk(<<reqs[i][1], reqs[i][2]>>)) : i \in DOMAIN reqs}

\* C6: the wires convert_to_wires asks for are those of a refresh against the
\* endpoints and the component layout as they are at the call, so that no
\* created wire crosses a cell a component covers when a free route exists.
\* Stated for endpoints on cells nothing covers, where the search's handling
\* of marked endpoints plays no part, and for searches whose result no pop
\* order changes.
C6_MaterializeCurrent ==
    (/\ last.op = "convert"
     /\ OrderFree(LastPf, last.start, last.goal)
     /\ ~update_graph_raises(last.w)
     /\ update_graph(last.w).lines[last.start] = 0
     /\ update_graph(last.w).lines[last.goal] = 0)
    => /\ last.out \in FreshRequests(last.w, last.start, last.goal)
       /\ MinTurns(update_graph(last.w), last.start, last.goal) >= 0
             => RequestCells(last.out) \cap occupied
                   \subseteq {last.start, last.goal}

\* C7: with start = goal the path found is <<start>>, the path cached is
\* <<start>> too, and point_pairs is empty.
C7_DegeneratePath ==
    (Searched /\ last.start = last.goal)
    => /\ last.raw = <<last.start>>
       /\ LastPath = <<last.start>>
       /\ point_pairs(LastPath) = <<>>

\* C8: simplify_path of a path astar returned is its subsequence of the
\* first cell, the turn cells and the last cell, and the cell-by-cell walk
\* along it is the path again.
C8_SimplifierRoundTrip ==
    Found => /\ simplify_path(last.raw) = TurnSubsequence(last.raw)
             /\ Walk(simplify_path(last.raw)) = last.raw

\* The hit-test the claim describes: some segment's line is nearer than 0.5
\* to the point, a segment of no length counting as its point.
DistanceHit(path, q) ==
    \E i \in 1..(Len(path) - 1) :
        LET a == path[i]
            b == path[i + 1]
            dx == b[1] - a[1]
            dy == b[2] - a[2]
            cr == dx * (a[2] - q[2]) - dy * (a[1] - q[1])
        IN  IF a = b
            THEN 4 * ((q[1] - a[1]) * (q[1] - a[1])
                      + (q[2] - a[2]) * (q[2] - a[2])) < 1
            ELSE 4 * cr * cr < dx * dx + dy * dy

\* is_within_bbox divides by norm(end - start) = 0 for some segment of path.
DividesByZero(path) == \E i \in 1..(Len(path) - 1) : path[i] = path[i + 1]

\* C9: is_within_bbox is true exactly when some segment is nearer than 0.5
\* to the point, a segment of no length being a point, and it never divides
\* by zero.
C9_HitTestDistance ==
    (last.op = "hit" /\ last.err = "")
    => /\ last.hit = DistanceHit(LastPath, last.q)
       /\ ~DividesByZero(LastPath)

\* A request made of a wire that was never refreshed.
StaleRequest(l) == l.op \in {"segments", "hit", "convert"} /\ l.stale

\* C10: segments, hit-test and materialize answer a never-refreshed wire in
\* one way, all raising or all refreshing, and no draw fails because of
\* another wire that was never refreshed.
C10_StaleConsistent ==
    [][/\ (StaleRequest(last) /\ StaleRequest(last'))
             => ((last.err = "") <=> (last'.err = ""))
       /\ last'.op = "draw" => last'.err = ""]_vars

\* The wire of the last operation runs from (0,0) to (0,4) on the 5x5 graph
\* whose row y = 2 is marked but for (4,2).
WallScenario ==
    /\ last.w \in Wires
    /\ LastPf = WallGraph(4)
    /\ last.start = <<0, 0>>
    /\ last.goal = <<0, 4>>

\* C11: on the 5x5 graph whose row y = 2 is marked but for (4,2), from (0,0)
\* to (0,4), astar returns, whichever of the equal-ranked nodes is popped
\* first, a path through (4,2) that ends at (0,4) and turns at most 4 times,
\* and the simplified path is start, the turn cells and goal: turns + 2
\* cells.
C11_WallDetour ==
    (Searched /\ WallScenario)
    => /\ last.raw # NoPathFound
       /\ <<4, 2>> \in Range(last.raw)
       /\ last.raw[1] = <<0, 0>>
       /\ last.raw[Len(last.raw)] = <<0, 4>>
       /\ Turns(last.raw) <= 4
       /\ wire[last.w].simplified
             => /\ LastPath = TurnSubsequence(last.raw)
                /\ Len(LastPath) = Turns(last.raw) + 2

\* C11 witness: the wall scenario refreshed with simplification, the path
\* found turning 4 times and cached as 6 cells.
C11_Witness ==
    /\ last.op = "update_path"
    /\ WallScenario
    /\ wire[last.w].simplified
    /\ Turns(last.raw) = 4
    /\ Len(LastPath) = 6

\* Two cells on one column or on one row.
OnAxis(a, b) == a[1] = b[1] \/ a[2] = b[2]

\* Every two consecutive cells of path are on one column or on one row.
AxisAligned(path) ==
    \A i \in 1..(Len(path) - 1) : OnAxis(path[i], path[i + 1])

\* Every pair of out is horizontal or vertical.
SegmentsAligned(out) == \A i \in DOMAIN out : OnAxis(out[i][1], out[i][2])

\* C12: after every update_path, whatever the graph and the nodes, the
\* cached path is non-empty, begins with start, ends with goal, and every two
\* consecutive cells of it share a column or a row, so that every pair
\* point_pairs returns and every wire convert_to_wires asks for is horizontal
\* or vertical.  Stated for nodes on unmarked cells, where the search's
\* handling of marked endpoints plays no part.
C12_PathOrthogonal ==
    (/\ last.w \in Wires
     /\ LastPf.lines[last.start] = 0
     /\ LastPf.lines[last.goal] = 0)
    => /\ Searched => /\ Len(LastPath) >= 1
                      /\ LastPath[1] = last.start
                      /\ LastPath[Len(LastPath)] = last.goal
                      /\ AxisAligned(LastPath)
       /\ last.op = "convert" => SegmentsAligned(last.out)
       /\ (last.op = "segments" /\ ~last.stale /\ last.err = "")
             => SegmentsAligned(last.out)

\* No chain of free 4-neighbours links the start of the last operation's
\* wire to its goal.
Unlinked == last.w \in Wires /\ last.goal \notin Flood(LastPf, {last.start})

\* C12 as amended: after every update_path the cached path is non-empty,
\* begins with start and ends with goal; when astar found a path every two
\* consecutive cells of it share a column or a row and the pairs handed out
\* are horizontal or vertical; when astar found none the path is
\* <<start, goal>>, one pair that may be diagonal.
C12_OrthogonalWhenFound ==
    /\ Searched => /\ Len(LastPath) >= 1
                   /\ LastPath[1] = last.start
                   /\ LastPath[Len(LastPath)] = last.goal
                   /\ last.raw # NoPathFound => AxisAligned(LastPath)
                   /\ last.raw = NoPathFound
                         => LastPath = <<last.start, last.goal>>
    /\ last.op = "convert"
          => /\ last.raw # NoPathFound => SegmentsAligned(last.out)
             /\ last.raw = NoPathFound
                   => last.out = << <<last.start, last.goal>> >>
    /\ (last.op = "segments" /\ ~last.stale /\ last.err = "")
          => /\ ~Unlinked => SegmentsAligned(last.out)
             /\ Unlinked => last.out = << <<last.start, last.goal>> >>

\* C12 witness: convert_to_wires asks for three wires or more along a
\* simplified path that turns twice or more.
C12_Witness ==
    /\ last.op = "convert"
    /\ last.raw # NoPathFound
    /\ wire[last.w].simplified
    /\ Turns(last.raw) >= 2
    /\ Len(last.out) >= 3
    /\ SegmentsAligned(last.out)

====
